---- MODULE Spec2Model ----
(***************************************************************************)
(* aioodbc connection pool (aioodbc/pool.py) as a state machine.           *)
(*                                                                         *)
(* The pool runs on one asyncio event loop: a coroutine runs without       *)
(* interruption from one await that suspends to the next.  Every action    *)
(* below is one such run of one coroutine: it starts where the coroutine   *)
(* was suspended (pc) and ends where it suspends again or returns.         *)
(* asyncio.Condition is modelled by its lock (owner + FIFO queue of        *)
(* waiters) and its deque of waiters with the futures already resolved by  *)
(* notify().  A connection's close() and connect() go through the          *)
(* executor, so each is a suspension point of its caller.                  *)
(*                                                                         *)
(* A task is a sequential caller: it makes one call at a time and makes    *)
(* the next one at any later moment.  Which of the coroutines that can run *)
(* runs next is left open, so the model has every order in which the       *)
(* event loop and the executor can resume them.                            *)
(***************************************************************************)
EXTENDS Integers, Sequences, FiniteSets, TLC

\* ---- bounds of the model ------------------------------------------------
NTasks   == 3   \* concurrent callers of the pool
MaxConns == 2   \* Connection objects ever constructed
MaxTime  == 1   \* loop.time() runs over 0..MaxTime
MaxSize  == 2   \* largest maxsize a pool is created with

NCallers == 2   \* callers that take part in DriverSpec and CancelSpec

Tasks == 1..NTasks
Callers == 1..NCallers
Conns == 1..MaxConns

VARIABLES
    minsize,    \* Pool._minsize
    maxsize,    \* Pool._maxsize (also the maxlen of the free deque)
    recycle,    \* Pool._recycle
    now,        \* loop.time()
    ready,      \* _create_pool has returned the pool to its callers
    free,       \* Pool._free, leftmost first
    used,       \* Pool._used
    acquiring,  \* Pool._acquiring
    closing,    \* Pool._closing
    closed,     \* Pool._closed
    lock,       \* owner of Pool._cond's lock, 0 when unlocked
    lockq,      \* tasks queued on the lock, FIFO
    condw,      \* Pool._cond._waiters, FIFO
    notified,   \* waiters whose future notify() has resolved
    cst,        \* per Connection: "none" (not built yet), "open", "closed"
    lu,         \* per Connection: Connection._last_usage
    nconn,      \* Connection objects constructed so far
    pc,         \* per task: where its coroutine is suspended
    op,         \* per task: the pool operation it is inside
    held,       \* per task: connections acquire() returned to it, not yet released
    loc,        \* per task: the local variable conn of the suspended frame
    rem,        \* per task: iterations left in the recycle sweep (free - n)
    born,       \* per task: loop.time() when the Connection being connected was built
    ev,         \* what the latest step raised to its caller (an exception's name),
                \* "wait_closed" when it returned from wait_closed(), else "none"
    scope,      \* per task: the _ContextManager it is using: "none", "enter"
                \* (inside __aenter__), or the kind of block its _obj is set for
    obj,        \* per task: the Connection that is _ContextManager._obj, 0 for
                \* None (the _obj of a cursor block is the task's cursor)
    exit,       \* per task: inside __aexit__ after a "normal" or "error" exit
    cur,        \* per task: its Cursor: "none" (no cursor), "open", "closed"
    curc,       \* per task: Cursor._conn, 0 for None
    autoc,      \* per Connection: autocommit
    work        \* per task: what became of the statement its block executed

vars == <<minsize, maxsize, recycle, now, ready, free, used, acquiring, closing,
          closed, lock, lockq, condw, notified, cst, lu, nconn, pc, op, held,
          loc, rem, born, ev, scope, obj, exit, cur, curc, autoc, work>>

\* The mutable state as one record, so that the straight-line code between two
\* suspension points can be written as a composition of operators.
St ==
    [free |-> free, used |-> used, acquiring |-> acquiring, closing |-> closing,
     closed |-> closed, lock |-> lock, lockq |-> lockq, condw |-> condw,
     notified |-> notified, cst |-> cst, lu |-> lu, nconn |-> nconn, pc |-> pc,
     op |-> op, held |-> held, loc |-> loc, rem |-> rem, born |-> born,
     ready |-> ready, ev |-> "none", scope |-> scope, obj |-> obj,
     exit |-> exit, cur |-> cur, curc |-> curc, autoc |-> autoc, work |-> work]

Apply(s) ==
    /\ free' = s.free /\ used' = s.used /\ acquiring' = s.acquiring
    /\ closing' = s.closing /\ closed' = s.closed
    /\ lock' = s.lock /\ lockq' = s.lockq
    /\ condw' = s.condw /\ notified' = s.notified
    /\ cst' = s.cst /\ lu' = s.lu /\ nconn' = s.nconn
    /\ pc' = s.pc /\ op' = s.op /\ held' = s.held /\ loc' = s.loc /\ rem' = s.rem
    /\ born' = s.born /\ ready' = s.ready /\ ev' = s.ev
    /\ scope' = s.scope /\ obj' = s.obj /\ exit' = s.exit
    /\ cur' = s.cur /\ curc' = s.curc /\ autoc' = s.autoc /\ work' = s.work
    /\ UNCHANGED <<minsize, maxsize, recycle, now>>

\* ---- helpers ---------------------------------------------------------------

\* Pool.freesize
FreeSize(s) == Len(s.free)

\* Pool.size
Size(s) == FreeSize(s) + Cardinality(s.used) + s.acquiring

\* Connection.closed
ConnClosed(s, c) == s.cst[c] # "open"

\* deque.append on a deque with maxlen = maxsize: a full deque drops its left end
DequeAppend(f, c) ==
    IF maxsize = 0 THEN f
    ELSE IF Len(f) >= maxsize THEN Append(Tail(f), c)
    ELSE Append(f, c)

\* deque.rotate(): the right end moves to the left end
Rotate(f) == IF f = <<>> THEN f ELSE <<f[Len(f)]>> \o SubSeq(f, 1, Len(f) - 1)

\* deque.pop(): drops the right end
Pop(f) == SubSeq(f, 1, Len(f) - 1)

Range(f) == {f[i] : i \in 1..Len(f)}

Remove(f, x) == SelectSeq(f, LAMBDA y : y # x)

\* the recycle test of _fill_free_pool
Expired(s, c) == recycle > -1 /\ now - s.lu[c] > recycle

\* asyncio.Lock.release: the lock goes to the first queued waiter
LockRelease(s) ==
    IF s.lockq = <<>> THEN [s EXCEPT !.lock = 0]
    ELSE [s EXCEPT !.lock = Head(s.lockq), !.lockq = Tail(s.lockq)]

\* asyncio.Condition.notify(n=1): resolves the first future not yet resolved
Notify(s) ==
    LET pending == SelectSeq(s.condw, LAMBDA t : t \notin s.notified)
    IN  IF pending = <<>> THEN s
        ELSE [s EXCEPT !.notified = @ \cup {Head(pending)}]

\* the operation of task t returns
Return(s, t) ==
    [s EXCEPT !.pc[t] = "idle", !.op[t] = "none", !.loc[t] = 0, !.rem[t] = 0,
              !.born[t] = 0]

\* an exception leaves the operation of task t; "async with self._cond" unlocks
Raise(s, t, e) ==
    [Return(IF s.lock = t THEN LockRelease(s) ELSE s, t) EXCEPT !.ev = e]

\* ---- driver errors (utils._is_conn_close_error) --------------------------

\* the text _CONN_CLOSE_ERRORS gives for HY000, as a sequence of words
ServerClosedMsg == <<"[HY000]", "server", "closed", "the", "connection", "unexpectedly">>

\* _CONN_CLOSE_ERRORS: SQLSTATE -> message prefix, <<>> for None
ConnCloseErrors == [x \in {"08S01", "HY000"} |->
                       IF x = "08S01" THEN <<>> ELSE ServerClosedMsg]

\* str.startswith
StartsWith(m, p) == Len(p) <= Len(m) /\ SubSeq(m, 1, Len(p)) = p

\* what the driver call of execute() can end with: no error, or a pyodbc.Error
\* with these args (each arg after the SQLSTATE is a message, a word sequence)
NoError == <<>>

DriverErrors ==
    { <<"08S01">>,
      <<"08S01", <<"Communication", "link", "failure">> >>,
      <<"HY000", ServerClosedMsg>>,
      <<"HY000", ServerClosedMsg \o <<"(26)">> >>,
      <<"HY000", <<"[HY000]", "server", "closed">> >>,
      <<"HY000", <<"near", "SELEC", "syntax", "error">> >>,
      <<"HY000">>,
      <<"42000", ServerClosedMsg>>,
      <<"42000", <<"syntax", "error">> >> }

\* (mutant) _is_conn_close_error taking every HY000 error for a closed
\* connection, whatever its message
IsConnCloseError_AnyHY000(e) ==
    IF Len(e) < 2 THEN FALSE
    ELSE e[1] \in DOMAIN ConnCloseErrors

\* _is_conn_close_error(e) for a pyodbc.Error with args e
IsConnCloseError(e) ==
    IF Len(e) < 2 THEN FALSE
    ELSE LET sqlstate == e[1]
             msg == e[2]
         IN  IF sqlstate \notin DOMAIN ConnCloseErrors THEN FALSE
             ELSE IF ConnCloseErrors[sqlstate] = <<>> THEN TRUE
             ELSE StartsWith(msg, ConnCloseErrors[sqlstate])

\* the exceptions _is_conn_close_error is tried on: instances of pyodbc.Error
\* and of other classes, with no args, one, two or three
Exceptions ==
    [isError : BOOLEAN,
     args : DriverErrors \cup {<<>>, <<"08S01", <<>>, <<"x">> >>,
                                <<"HY000", ServerClosedMsg, <<"x">> >>,
                                <<"HY000", <<>> >>}]

\* _is_conn_close_error(e) for any exception: "if not isinstance(e, Error) or
\* len(e.args) < 2: return False"
IsConnCloseException(x) ==
    IF ~x.isError THEN FALSE ELSE IsConnCloseError(x.args)

\* (mutant) execute() re-raising a connection-terminating error without
\* closing the connection
Execute_NoClose(s, t, c, e) ==
    IF e = NoError THEN Return(s, t) ELSE Raise(s, t, "Error")

\* Connection.execute on a checked-out connection c, from the moment the driver
\* call ends with e: a terminating error starts "await self.close()", any
\* other error is re-raised at once
Execute(s, t, c, e) ==
    IF e = NoError THEN Return(s, t)
    ELSE IF IsConnCloseError(e)
    THEN [s EXCEPT !.pc[t] = "conn_close", !.loc[t] = c, !.op[t] = "execute"]
    ELSE Raise(s, t, "Error")

\* Cursor._run_operation on an open cursor of the checked-out connection c,
\* from the moment the driver call ends with e
RunOperation(s, t, c, e) ==
    IF e = NoError THEN Return(s, t)
    ELSE IF IsConnCloseError(e)
    THEN [s EXCEPT !.pc[t] = "conn_close", !.loc[t] = c, !.op[t] = "run_operation"]
    ELSE Raise(s, t, "Error")

\* ---- Pool._acquire / Pool._fill_free_pool --------------------------------

\* asyncio.Condition.wait() up to its suspension: unlock, queue a new future
CondWait(s, t) ==
    LET u == LockRelease(s)
    IN  [u EXCEPT !.condw = Append(@, t), !.pc[t] = "cond_wait"]

\* (mutant) _acquire reading the left end of free without popping it
AcquireTake_NoPop(s, t) ==
    IF s.free # <<>>
    THEN LET c == Head(s.free)
         IN  IF ConnClosed(s, c) \/ c \in s.used
             THEN Raise(s, t, "AssertionError")
             ELSE Return(LockRelease([s EXCEPT !.used = @ \cup {c},
                                               !.held[t] = @ \cup {c}]), t)
    ELSE CondWait(s, t)

\* (mutant) _acquire taking the right end of free (the latest arrival)
AcquireTake_PopsRight(s, t) ==
    IF s.free # <<>>
    THEN LET c == s.free[Len(s.free)]
             u == [s EXCEPT !.free = Pop(@)]
         IN  IF ConnClosed(u, c) \/ c \in u.used
             THEN Raise(u, t, "AssertionError")
             ELSE Return(LockRelease([u EXCEPT !.used = @ \cup {c},
                                               !.held[t] = @ \cup {c}]), t)
    ELSE CondWait(s, t)

\* _acquire after _fill_free_pool returned: pop the left end of free or wait
AcquireTake(s, t) ==
    IF s.free # <<>>
    THEN LET c == Head(s.free)
             u == [s EXCEPT !.free = Tail(@)]
         IN  IF ConnClosed(u, c) \/ c \in u.used
             THEN Raise(u, t, "AssertionError")
             ELSE Return(LockRelease([u EXCEPT !.used = @ \cup {c},
                                               !.held[t] = @ \cup {c}]), t)
    ELSE CondWait(s, t)

\* _fill_free_pool returns to its caller: _acquire's loop, or _create_pool
FillReturn(s, t) ==
    IF s.op[t] = "create"
    THEN Return([LockRelease(s) EXCEPT !.ready = TRUE], t)
    ELSE AcquireTake(s, t)

\* (mutant) _fill_free_pool giving up the lock while it awaits connect()
StartConnect_Unlocks(s, t, p) ==
    [LockRelease(s) EXCEPT !.acquiring = @ + 1, !.born[t] = now, !.pc[t] = p]

\* "self._acquiring += 1" and connect() up to its suspension in the executor;
\* the Connection object is constructed here, which sets its _last_usage
StartConnect(s, t, p) ==
    [s EXCEPT !.acquiring = @ + 1, !.born[t] = now, !.pc[t] = p]

\* (mutant) _fill_free_pool creating the extra connection without the
\* "self.size < self.maxsize" test
FillCreate_NoMaxTest(s, t) ==
    IF Size(s) < minsize THEN StartConnect(s, t, "connect_min")
    ELSE IF s.free # <<>> THEN FillReturn(s, t)
    ELSE IF s.op[t] = "acquire"
         THEN StartConnect(s, t, "connect_one")
         ELSE FillReturn(s, t)

\* (mutant) _fill_free_pool creating a connection for every acquire() while
\* size < maxsize, whether a free connection is there or not
FillCreate_Eager(s, t) ==
    IF Size(s) < minsize THEN StartConnect(s, t, "connect_min")
    ELSE IF s.op[t] = "acquire" /\ Size(s) < maxsize
         THEN StartConnect(s, t, "connect_one")
         ELSE FillReturn(s, t)

\* _fill_free_pool after the sweep: top up to minsize, then one more connection
\* when free is empty, the caller is _acquire and size < maxsize
FillCreate(s, t) ==
    IF Size(s) < minsize THEN StartConnect(s, t, "connect_min")
    ELSE IF s.free # <<>> THEN FillReturn(s, t)
    ELSE IF s.op[t] = "acquire" /\ Size(s) < maxsize
         THEN StartConnect(s, t, "connect_one")
         ELSE FillReturn(s, t)

\* (mutant) _fill_free_pool decrementing _acquiring on success only (no finally)
ConnectResume_NoFinally(s, t, ok) ==
    IF ok
    THEN LET c == s.nconn + 1
             u == Notify([s EXCEPT !.nconn = c, !.cst[c] = "open",
                                   !.lu[c] = s.born[t],
                                   !.free = DequeAppend(@, c)])
             v == [u EXCEPT !.acquiring = @ - 1, !.born[t] = 0]
         IN  IF s.pc[t] = "connect_min" THEN FillCreate(v, t)
             ELSE FillReturn(v, t)
    ELSE Raise(s, t, "ConnectError")

\* (mutant) _fill_free_pool trying the connect again when it fails
ConnectResume_Retries(s, t, ok) ==
    IF ok
    THEN LET c == s.nconn + 1
             u == Notify([s EXCEPT !.nconn = c, !.cst[c] = "open",
                                   !.lu[c] = s.born[t],
                                   !.free = DequeAppend(@, c)])
             v == [u EXCEPT !.acquiring = @ - 1, !.born[t] = 0]
         IN  IF s.pc[t] = "connect_min" THEN FillCreate(v, t)
             ELSE FillReturn(v, t)
    ELSE s

\* connect() resumes in _fill_free_pool: append + notify on success, and
\* "finally: self._acquiring -= 1" either way
ConnectResume(s, t, ok) ==
    IF ok
    THEN LET c == s.nconn + 1
             u == Notify([s EXCEPT !.nconn = c, !.cst[c] = "open",
                                   !.lu[c] = s.born[t],
                                   !.free = DequeAppend(@, c)])
             v == [u EXCEPT !.acquiring = @ - 1, !.born[t] = 0]
         IN  IF s.pc[t] = "connect_min" THEN FillCreate(v, t)
             ELSE FillReturn(v, t)
    ELSE Raise([s EXCEPT !.acquiring = @ - 1], t, "ConnectError")

\* the recycle sweep of _fill_free_pool with k = free - n iterations to go,
\* run until conn.close() suspends or the loop ends
RECURSIVE Sweep(_, _, _)
Sweep(s, t, k) ==
    IF k = 0 THEN FillCreate([s EXCEPT !.rem[t] = 0, !.loc[t] = 0], t)
    ELSE IF s.free = <<>> THEN Raise(s, t, "IndexError")
    ELSE LET c == s.free[Len(s.free)]
         IN  IF Expired(s, c)
             THEN IF ~ConnClosed(s, c)
                  THEN [s EXCEPT !.pc[t] = "sweep_close", !.loc[t] = c, !.rem[t] = k]
                  ELSE Sweep([s EXCEPT !.free = Pop(@)], t, k - 1)
             ELSE Sweep([s EXCEPT !.free = Rotate(@)], t, k - 1)

\* _fill_free_pool from its first line
FillStart(s, t) == Sweep(s, t, Len(s.free))

\* Connection.close() resumes from the executor: the driver closes the handle
\* and _conn is cleared; closing a handle closed meanwhile raises ProgrammingError
CloseOk(s, c) == s.cst[c] = "open"

CloseResume(s, c) == IF CloseOk(s, c) THEN [s EXCEPT !.cst[c] = "closed"] ELSE s

\* conn.close() resumes in the sweep: ProgrammingError is logged, then
\* "self._free.pop()" and the next iteration
SweepResume(s, t) ==
    LET u == CloseResume(s, s.loc[t])
    IN  IF u.free = <<>> THEN Raise(u, t, "IndexError")
        ELSE Sweep([u EXCEPT !.free = Pop(@)], t, s.rem[t] - 1)

\* ---- Pool.clear ----------------------------------------------------------

\* (mutant) clear() emptying free without closing the connections
RECURSIVE ClearLoop_DropsOpen(_, _)
ClearLoop_DropsOpen(s, t) ==
    IF s.free # <<>>
    THEN ClearLoop_DropsOpen([s EXCEPT !.free = Tail(@)], t)
    ELSE Return(LockRelease(Notify(s)), t)

\* the loop of clear(), run until conn.close() suspends; close() of a
\* connection already closed returns at once
RECURSIVE ClearLoop(_, _)
ClearLoop(s, t) ==
    IF s.free # <<>>
    THEN LET c == Head(s.free)
             u == [s EXCEPT !.free = Tail(@)]
         IN  IF ConnClosed(u, c) THEN ClearLoop(u, t)
             ELSE [u EXCEPT !.pc[t] = "clear_close", !.loc[t] = c]
    ELSE Return(LockRelease(Notify(s)), t)

ClearResume(s, t) ==
    IF CloseOk(s, s.loc[t]) THEN ClearLoop(CloseResume(s, s.loc[t]), t)
    ELSE Raise(s, t, "ProgrammingError")

\* ---- Pool.wait_closed ----------------------------------------------------

\* "while self.size > self.freesize: await self._cond.wait()", then _closed
WaitClosedLoop(s, t) ==
    IF Size(s) > FreeSize(s) THEN CondWait(s, t)
    ELSE [Return([LockRelease(s) EXCEPT !.closed = TRUE], t)
            EXCEPT !.ev = "wait_closed"]

\* ---- Pool._wakeup --------------------------------------------------------

WakeupBody(s, t) == Return(LockRelease(Notify(s)), t)

\* ---- the lock of the condition ------------------------------------------

\* the body that follows "async with self._cond" in the operation t is inside
Granted(s, t) ==
    CASE s.op[t] \in {"acquire", "create"} -> FillStart(s, t)
      [] s.op[t] = "clear"       -> ClearLoop(s, t)
      [] s.op[t] = "release"     -> WakeupBody(s, t)
      [] s.op[t] = "wait_closed" -> WaitClosedLoop(s, t)

\* asyncio.Lock.acquire: taken at once when unlocked, else the task queues
LockAcquire(s, t) ==
    IF s.lock = 0 THEN Granted([s EXCEPT !.lock = t], t)
    ELSE [s EXCEPT !.lockq = Append(@, t), !.pc[t] = "lock_wait"]

\* the drain loop of wait_closed(), outside the lock, until close() suspends
RECURSIVE DrainLoop(_, _)
DrainLoop(s, t) ==
    IF s.free # <<>>
    THEN LET c == Head(s.free)
             u == [s EXCEPT !.free = Tail(@)]
         IN  IF ConnClosed(u, c) THEN DrainLoop(u, t)
             ELSE [u EXCEPT !.pc[t] = "drain_close", !.loc[t] = c]
    ELSE LockAcquire([s EXCEPT !.loc[t] = 0], t)

DrainResume(s, t) ==
    IF CloseOk(s, s.loc[t]) THEN DrainLoop(CloseResume(s, s.loc[t]), t)
    ELSE Raise(s, t, "ProgrammingError")

\* Condition.wait() resumes: the future leaves the deque, the lock is retaken
WaitResume(s, t) ==
    LockAcquire([s EXCEPT !.condw = Remove(@, t), !.notified = @ \ {t}], t)

\* _acquire up to its first suspension (or to its return)
AcquireStart(s, t) ==
    IF s.closing
    THEN Raise(s, t, "PoolClosing")
    ELSE LockAcquire([s EXCEPT !.op[t] = "acquire"], t)

\* ---- Pool.close / Pool.wait_closed up to the first suspension ------------

\* (mutant) close() that also empties the free collection
PoolClose_DropsFree(s, t) ==
    Return(IF s.closed THEN s ELSE [s EXCEPT !.closing = TRUE, !.free = <<>>], t)

\* Pool.close()
PoolClose(s, t) ==
    Return(IF s.closed THEN s ELSE [s EXCEPT !.closing = TRUE], t)

\* (mutant) wait_closed() without its "if not self._closing: raise" test
WaitClosedStart_NoClosingTest(s, t) ==
    IF s.closed THEN [Return(s, t) EXCEPT !.ev = "wait_closed"]
    ELSE DrainLoop([s EXCEPT !.op[t] = "wait_closed"], t)

\* (mutant) wait_closed() draining the free connections before it tests _closing
WaitClosedStart_DrainsFirst(s, t) ==
    IF s.closed THEN [Return(s, t) EXCEPT !.ev = "wait_closed"]
    ELSE IF ~s.closing THEN Raise([s EXCEPT !.free = <<>>], t, "RuntimeError")
    ELSE DrainLoop([s EXCEPT !.op[t] = "wait_closed"], t)

\* wait_closed() up to its first suspension (or to its return)
WaitClosedStart(s, t) ==
    IF s.closed THEN [Return(s, t) EXCEPT !.ev = "wait_closed"]
    ELSE IF ~s.closing THEN Raise(s, t, "RuntimeError")
    ELSE DrainLoop([s EXCEPT !.op[t] = "wait_closed"], t)

\* ---- Pool.release --------------------------------------------------------

\* (mutant) release() closing the connection of a closing pool before it
\* leaves the used set
ReleaseStart_CloseInUsed(s, t, c) ==
    LET u == [s EXCEPT !.held[t] = @ \ {c}, !.op[t] = "release"]
        v == [u EXCEPT !.used = @ \ {c}]
    IN  IF c \notin s.used THEN Raise(s, t, "AssertionError")
        ELSE IF ~ConnClosed(u, c)
        THEN IF u.closing
             THEN [u EXCEPT !.pc[t] = "rel_close", !.loc[t] = c]
             ELSE LockAcquire([v EXCEPT !.free = DequeAppend(@, c)], t)
        ELSE Return(v, t)

\* (mutant) release() that discards from used without "assert conn in self._used"
ReleaseStart_NoAssert(s, t, c) ==
    LET u == [s EXCEPT !.used = @ \ {c}, !.held[t] = @ \ {c}, !.op[t] = "release"]
    IN  IF ~ConnClosed(u, c)
        THEN IF u.closing
             THEN [u EXCEPT !.pc[t] = "rel_close", !.loc[t] = c]
             ELSE LockAcquire([u EXCEPT !.free = DequeAppend(@, c)], t)
        ELSE Return(u, t)

\* (mutant) release() that pools the connection even when the pool is closing
ReleaseStart_PoolsOnClosing(s, t, c) ==
    LET u == [s EXCEPT !.used = @ \ {c}, !.held[t] = @ \ {c}, !.op[t] = "release"]
    IN  IF c \notin s.used THEN Raise(s, t, "AssertionError")
        ELSE IF ~ConnClosed(u, c)
        THEN LockAcquire([u EXCEPT !.free = DequeAppend(@, c)], t)
        ELSE Return(u, t)

\* (mutant) release() that pools a connection without looking at conn.closed
ReleaseStart_PoolsClosed(s, t, c) ==
    LET u == [s EXCEPT !.used = @ \ {c}, !.held[t] = @ \ {c}, !.op[t] = "release"]
    IN  IF c \notin s.used THEN Raise(s, t, "AssertionError")
        ELSE IF u.closing /\ ~ConnClosed(u, c)
        THEN [u EXCEPT !.pc[t] = "rel_close", !.loc[t] = c]
        ELSE LockAcquire([u EXCEPT !.free = DequeAppend(@, c)], t)

\* (mutant) release() discarding an open connection instead of pooling it
ReleaseStart_DropsOpen(s, t, c) ==
    LET u == [s EXCEPT !.used = @ \ {c}, !.held[t] = @ \ {c}, !.op[t] = "release"]
    IN  IF c \notin s.used THEN Raise(s, t, "AssertionError")
        ELSE IF ~ConnClosed(u, c)
        THEN IF u.closing
             THEN [u EXCEPT !.pc[t] = "rel_close", !.loc[t] = c]
             ELSE LockAcquire(u, t)
        ELSE Return(u, t)

\* release(conn) up to its first suspension: "assert conn in self._used",
\* then remove; an open connection is closed (closing pool) or pooled, and the
\* condition is notified; a closed one is dropped
ReleaseStart(s, t, c) ==
    LET u == [s EXCEPT !.used = @ \ {c}, !.held[t] = @ \ {c}, !.op[t] = "release"]
    IN  IF c \notin s.used THEN Raise(s, t, "AssertionError")
        ELSE IF ~ConnClosed(u, c)
        THEN IF u.closing
             THEN [u EXCEPT !.pc[t] = "rel_close", !.loc[t] = c]
             ELSE LockAcquire([u EXCEPT !.free = DequeAppend(@, c)], t)
        ELSE Return(u, t)

\* conn.close() resumes in release(): then "await self._wakeup()"
ReleaseResume(s, t) ==
    IF CloseOk(s, s.loc[t])
    THEN LockAcquire([CloseResume(s, s.loc[t]) EXCEPT !.loc[t] = 0], t)
    ELSE Raise(s, t, "ProgrammingError")

\* ---- connect() with an after_created hook, and cancellation ------------

\* Connection._connect with an after_created hook that suspends: the executor
\* returns the handle, "self._conn = await f" stores it in the new Connection
\* and the hook is awaited; the Connection is in no collection yet
ConnectHook(s, t) ==
    LET c == s.nconn + 1
    IN  [s EXCEPT !.nconn = c, !.cst[c] = "open", !.lu[c] = s.born[t],
                  !.loc[t] = c,
                  !.pc[t] = IF s.pc[t] = "connect_min" THEN "hook_min"
                            ELSE "hook_one"]

\* the hook returns or raises: connect() returns the Connection to
\* _fill_free_pool (append + notify), or its exception goes up through
\* "finally: self._acquiring -= 1" and the Connection is dropped as it is
HookResume(s, t, ok) ==
    IF ok
    THEN LET c == s.loc[t]
             u == Notify([s EXCEPT !.free = DequeAppend(@, c), !.loc[t] = 0])
             v == [u EXCEPT !.acquiring = @ - 1, !.born[t] = 0]
         IN  IF s.pc[t] = "hook_min" THEN FillCreate(v, t)
             ELSE FillReturn(v, t)
    ELSE Raise([s EXCEPT !.acquiring = @ - 1], t, "HookError")

\* the suspension points of _acquire that the task's cancellation can hit
CancelPcs == {"lock_wait", "cond_wait", "connect_min", "connect_one",
              "hook_min", "hook_one"}

\* CancelledError is thrown into the acquire() of task t where it is suspended.
\* asyncio.Lock.acquire passes a lock it was handed to the next waiter;
\* asyncio.Condition.wait takes the lock again before it re-raises; an awaited
\* connect or hook is left through "finally: self._acquiring -= 1"; in each
\* case the error then leaves "async with self._cond", which unlocks.
CancelAcquire(s, t) ==
    CASE s.pc[t] = "lock_wait" ->
            IF s.lock = t THEN Raise(s, t, "CancelledError")
            ELSE Raise([s EXCEPT !.lockq = Remove(@, t)], t, "CancelledError")
      [] s.pc[t] = "cond_wait" ->
            LET u == [s EXCEPT !.condw = Remove(@, t), !.notified = @ \ {t}]
            IN  IF u.lock = 0
                THEN Raise([u EXCEPT !.lock = t], t, "CancelledError")
                ELSE [u EXCEPT !.lockq = Append(@, t), !.pc[t] = "cancel_lock"]
      [] s.pc[t] \in {"connect_min", "connect_one", "hook_min", "hook_one"} ->
            Raise([s EXCEPT !.acquiring = @ - 1], t, "CancelledError")

\* a Connection object nothing refers to any more: not pooled, not checked
\* out, not the local variable of a suspended frame
Unreferenced(s, c) ==
    /\ c \notin Range(s.free) /\ c \notin s.used
    /\ \A t \in Tasks : c \notin s.held[t] /\ s.loc[t] # c

\* ---- Cursor, transactions and the scoped wrappers (_ContextManager) ------

\* (mutant) Connection.close() handing a closed connection to the driver,
\* which refuses it
ConnClose_ClosedRaises(s, t, c) ==
    IF ConnClosed(s, c) THEN Raise(s, t, "ProgrammingError")
    ELSE [s EXCEPT !.pc[t] = "conn_close", !.loc[t] = c, !.op[t] = "conn_close"]

\* Connection.close() up to its suspension: "if not self._conn: return",
\* else the driver's close goes to the executor
ConnClose(s, t, c) ==
    IF ConnClosed(s, c) THEN Return(s, t)
    ELSE [s EXCEPT !.pc[t] = "conn_close", !.loc[t] = c, !.op[t] = "conn_close"]

\* the Cursor and Connection methods whose driver call the model follows
CursorFns == {"cur_execute", "cur_commit", "cur_rollback", "cur_close"}

\* the kinds of block a _ContextManager is used for: pool.acquire(),
\* conn.cursor() and aioodbc.connect()
Blocks == {"acquire", "cursor", "connect"}

\* what the driver answers on a handle that was closed: a ProgrammingError
\* whose only arg is its message
ClosedHandleError == << <<"Attempt", "to", "use", "a", "closed", "connection.">> >>

\* the outcomes of a driver call on connection c
DrvOutcomes(s, c) ==
    IF s.cst[c] = "open" THEN DriverErrors \cup {NoError} ELSE {ClosedHandleError}

\* "await self._execute(func)": the call goes to the executor
DrvCall(s, t, f, c) == [s EXCEPT !.pc[t] = "drv_call", !.op[t] = f, !.loc[t] = c]

\* (mutant) Connection._cursor asking the driver for a cursor without looking
\* at its handle
ConnCursor_NoHandleTest(s, t, c) == DrvCall(s, t, "cur_new", c)

\* Connection._cursor up to its driver call: "assert self._conn is not None",
\* then the driver's cursor() goes to the executor
ConnCursor(s, t, c) ==
    IF ConnClosed(s, c) THEN Raise(s, t, "AssertionError")
    ELSE DrvCall(s, t, "cur_new", c)

\* (mutant) _run_operation handing the call of a closed cursor to the driver
RunOp_NoClosedTest(s, t, f) == DrvCall(s, t, f, s.curc[t])

\* Cursor._run_operation up to its driver call: a closed cursor raises
\* OperationalError before anything is sent to the executor
RunOp(s, t, f) ==
    IF s.cur[t] # "open" THEN Raise(s, t, "OperationalError")
    ELSE DrvCall(s, t, f, s.curc[t])

\* Cursor.close() up to its driver call: "if self._conn is None: return"
CursorClose(s, t) ==
    IF s.cur[t] # "open" THEN Return(s, t) ELSE RunOp(s, t, "cur_close")

\* _close_cursor / _disconnect after the commit, _close_cursor_on_error /
\* _disconnect_on_error after the rollback: the close comes next; a commit or
\* rollback the caller made itself just returns
AfterTxn(s, t) ==
    IF s.exit[t] = "none" THEN Return(s, t)
    ELSE IF s.scope[t] = "cursor" THEN CursorClose(s, t)
    ELSE ConnClose(s, t, s.obj[t])

\* the driver call of task t ends with e, an error or NoError
DrvResume(s, t, e) ==
    LET c == s.loc[t]
        f == s.op[t]
    IN  IF e # NoError
        THEN IF f \in CursorFns \cup {"conn_execute"} /\ IsConnCloseError(e)
             THEN [s EXCEPT !.pc[t] = "conn_close"]
             ELSE Raise(s, t, IF f = "connect" THEN "ConnectError" ELSE "Error")
        ELSE CASE f = "connect" ->
                    Return([s EXCEPT !.nconn = @ + 1, !.cst[s.nconn + 1] = "open",
                                     !.lu[s.nconn + 1] = now,
                                     !.obj[t] = s.nconn + 1], t)
               [] f = "cur_new" ->
                    Return([s EXCEPT !.cur[t] = "open", !.curc[t] = c,
                                     !.lu[c] = now], t)
               [] f \in {"cur_execute", "conn_execute"} ->
                    Return([s EXCEPT !.work[t] = IF s.autoc[c] THEN "committed"
                                                 ELSE "pending"], t)
               [] f \in {"cur_commit", "conn_commit"} ->
                    AfterTxn([s EXCEPT !.work[t] = IF @ = "pending" THEN "committed"
                                                   ELSE @], t)
               [] f \in {"cur_rollback", "conn_rollback"} ->
                    AfterTxn([s EXCEPT !.work[t] = IF @ = "pending" THEN "rolledback"
                                                   ELSE @], t)
               [] f = "cur_close" ->
                    Return([s EXCEPT !.cur[t] = "closed", !.curc[t] = 0], t)

\* the close() of a connection by its user resumes: the handle is closed and
\* with it the transaction that was open on it; inside execute() or a cursor
\* operation the driver error is then re-raised
UserCloseResume(s, t) ==
    LET c == s.loc[t]
        u == [CloseResume(s, c) EXCEPT !.work[t] = IF @ = "pending" THEN "rolledback"
                                                   ELSE @]
    IN  IF ~CloseOk(s, c) THEN Raise(s, t, "ProgrammingError")
        ELSE IF s.op[t] = "conn_close" THEN Return(u, t)
        ELSE Raise(u, t, "Error")

\* _close_cursor(c): "if not c.autocommit: await c.commit()", "await c.close()";
\* the autocommit property asserts that the cursor and its connection are open
CloseCursor(s, t) ==
    IF s.cur[t] # "open" THEN Raise(s, t, "AssertionError")
    ELSE IF ConnClosed(s, s.curc[t]) THEN Raise(s, t, "AssertionError")
    ELSE IF ~s.autoc[s.curc[t]] THEN RunOp(s, t, "cur_commit")
    ELSE CursorClose(s, t)

\* _close_cursor_on_error(c): "await c.rollback()", "await c.close()"
CloseCursorOnError(s, t) == RunOp(s, t, "cur_rollback")

\* _disconnect(c): "if not c.autocommit: await c.commit()", "await c.close()"
Disconnect(s, t) ==
    LET c == s.obj[t]
    IN  IF ConnClosed(s, c) THEN Raise(s, t, "AssertionError")
        ELSE IF ~s.autoc[c] THEN DrvCall(s, t, "conn_commit", c)
        ELSE ConnClose(s, t, c)

\* _disconnect_on_error(c): "await c.rollback()", "await c.close()"
DisconnectOnError(s, t) ==
    LET c == s.obj[t]
    IN  IF ConnClosed(s, c) THEN Raise(s, t, "AssertionError")
        ELSE DrvCall(s, t, "conn_rollback", c)

\* (mutant) __aexit__ that releases after an exception only
AExit_NoReleaseOnNormalExit(s, t, exc) ==
    IF s.scope[t] \notin Blocks THEN Return(s, t)
    ELSE LET u == [s EXCEPT !.exit[t] = IF exc THEN "error" ELSE "normal"]
         IN  CASE s.scope[t] = "acquire" ->
                     IF exc THEN ReleaseStart(u, t, u.obj[t]) ELSE Return(u, t)
               [] s.scope[t] = "cursor" ->
                     IF exc THEN CloseCursorOnError(u, t) ELSE CloseCursor(u, t)
               [] s.scope[t] = "connect" ->
                     IF exc THEN DisconnectOnError(u, t) ELSE Disconnect(u, t)

\* _ContextManager.__aexit__ up to its first suspension: nothing when _obj is
\* None, else _release_on_exception or _release
AExit(s, t, exc) ==
    IF s.scope[t] \notin Blocks THEN Return(s, t)
    ELSE LET u == [s EXCEPT !.exit[t] = IF exc THEN "error" ELSE "normal"]
         IN  CASE s.scope[t] = "acquire" -> ReleaseStart(u, t, u.obj[t])
               [] s.scope[t] = "cursor" ->
                     IF exc THEN CloseCursorOnError(u, t) ELSE CloseCursor(u, t)
               [] s.scope[t] = "connect" ->
                     IF exc THEN DisconnectOnError(u, t) ELSE Disconnect(u, t)

\* the _ContextManager around the operation of task t, once that operation
\* has ended: __aenter__ keeps what its coroutine returned as _obj and has
\* none when it raised; __aexit__ ends with "finally: self._obj = None"
Scoped(s, t) ==
    IF s.pc[t] # "idle" THEN s
    ELSE IF s.scope[t] = "enter_acquire"
    THEN IF s.ev = "none"
         THEN [s EXCEPT !.scope[t] = "acquire",
                        !.obj[t] = CHOOSE c \in s.held[t] : c \notin held[t]]
         ELSE [s EXCEPT !.scope[t] = "none"]
    ELSE IF s.scope[t] \in {"enter_cursor", "enter_connect"}
    THEN IF s.ev = "none"
         THEN [s EXCEPT !.scope[t] = IF @ = "enter_cursor" THEN "cursor"
                                     ELSE "connect"]
         ELSE [s EXCEPT !.scope[t] = "none"]
    ELSE IF s.exit[t] # "none"
    THEN [s EXCEPT !.scope[t] = "none", !.obj[t] = 0, !.exit[t] = "none"]
    ELSE s

ApplyScoped(s, t) == Apply(Scoped(s, t))

\* ---- the state after construction ----------------------------------------

\* the arguments of create_pool, and no pool yet
Init ==
    /\ maxsize \in 0..MaxSize
    /\ minsize \in -1..MaxSize
    /\ recycle \in {-1, 0}
    /\ now = 0
    /\ ready = FALSE
    /\ free = <<>> /\ used = {} /\ acquiring = 0
    /\ closing = FALSE /\ closed = FALSE
    /\ lock = 0 /\ lockq = <<>> /\ condw = <<>> /\ notified = {}
    /\ cst = [c \in Conns |-> "none"]
    /\ lu = [c \in Conns |-> 0]
    /\ nconn = 0
    /\ pc = [t \in Tasks |-> IF t = 1 THEN "start" ELSE "idle"]
    /\ op = [t \in Tasks |-> "none"]
    /\ held = [t \in Tasks |-> {}]
    /\ loc = [t \in Tasks |-> 0]
    /\ rem = [t \in Tasks |-> 0]
    /\ born = [t \in Tasks |-> 0]
    /\ ev = "none"
    /\ scope = [t \in Tasks |-> "none"]
    /\ obj = [t \in Tasks |-> 0]
    /\ exit = [t \in Tasks |-> "none"]
    /\ cur = [t \in Tasks |-> "none"]
    /\ curc = [t \in Tasks |-> 0]
    /\ autoc = [c \in Conns |-> FALSE]
    /\ work = [t \in Tasks |-> "none"]

\* ---- the operations ------------------------------------------------------

\* the parameter tests of Pool.__init__
ValidSizes == minsize >= 0 /\ maxsize >= minsize

\* (mutant) _create_pool returning the pool without filling it
CreatePool_NoFill ==
    /\ pc[1] = "start"
    /\ Apply(IF ~ValidSizes THEN Raise(St, 1, "ValueError")
             ELSE Return([St EXCEPT !.ready = TRUE], 1))

\* (mutant) _create_pool building the pool before Pool.__init__ tests its sizes
CreatePool_LateTest ==
    /\ pc[1] = "start"
    /\ Apply(IF minsize > 0
             THEN LockAcquire([St EXCEPT !.op[1] = "create"], 1)
             ELSE IF ~ValidSizes THEN Raise(St, 1, "ValueError")
             ELSE Return([St EXCEPT !.ready = TRUE], 1))

\* _create_pool, run by task 1 before anyone else sees the pool: Pool.__init__
\* raises ValueError on bad sizes, else the pool is filled up to minsize
CreatePool ==
    /\ pc[1] = "start"
    /\ Apply(IF ~ValidSizes THEN Raise(St, 1, "ValueError")
             ELSE IF minsize > 0
             THEN LockAcquire([St EXCEPT !.op[1] = "create"], 1)
             ELSE Return([St EXCEPT !.ready = TRUE], 1))

\* (mutant) _acquire without its "if self._closing: raise" test
AcquireCall_NoClosingTest(t) ==
    /\ ready /\ pc[t] = "idle"
    /\ Apply(LockAcquire([St EXCEPT !.op[t] = "acquire"], t))

\* a task calls pool.acquire()
AcquireCall(t) ==
    /\ ready /\ pc[t] = "idle"
    /\ Apply(AcquireStart(St, t))

\* a task queued on the lock is handed the lock and runs on
LockGranted(t) ==
    /\ pc[t] = "lock_wait" /\ lock = t
    /\ Apply(Granted(St, t))

\* the executor finishes pyodbc.connect, with or without an error
ConnectDone(t) ==
    /\ pc[t] \in {"connect_min", "connect_one"}
    /\ \E ok \in BOOLEAN :
          /\ ok => nconn < MaxConns
          /\ Apply(ConnectResume(St, t, ok))

\* the executor finishes the close() issued by the recycle sweep
SweepCloseDone(t) ==
    /\ pc[t] = "sweep_close"
    /\ Apply(SweepResume(St, t))

\* a notified waiter of the condition runs again
CondWake(t) ==
    /\ pc[t] = "cond_wait" /\ t \in notified
    /\ Apply(WaitResume(St, t))

\* a task calls pool.release(conn) on a connection it acquired
ReleaseCall(t, c) ==
    /\ ready /\ pc[t] = "idle" /\ c \in held[t]
    /\ Apply(ReleaseStart(St, t, c))

\* a task calls pool.release(conn) on a connection that is not checked out:
\* one released before, or one it never acquired
ReleaseNotUsedCall(t, c) ==
    /\ ready /\ pc[t] = "idle" /\ c \notin used /\ cst[c] # "none"
    /\ Apply(ReleaseStart(St, t, c))

\* the executor finishes the close() issued by release() on a closing pool
ReleaseCloseDone(t) ==
    /\ pc[t] = "rel_close"
    /\ Apply(ReleaseResume(St, t))

\* a task calls pool.clear()
ClearCall(t) ==
    /\ ready /\ pc[t] = "idle"
    /\ Apply(LockAcquire([St EXCEPT !.op[t] = "clear"], t))

\* the executor finishes a close() issued by clear()
ClearCloseDone(t) ==
    /\ pc[t] = "clear_close"
    /\ Apply(ClearResume(St, t))

\* a task calls pool.close()
CloseCall(t) ==
    /\ ready /\ pc[t] = "idle"
    /\ Apply(PoolClose(St, t))

\* a task calls pool.wait_closed()
WaitClosedCall(t) ==
    /\ ready /\ pc[t] = "idle"
    /\ Apply(WaitClosedStart(St, t))

\* the executor finishes a close() issued by the drain loop of wait_closed()
DrainCloseDone(t) ==
    /\ pc[t] = "drain_close"
    /\ Apply(DrainResume(St, t))

\* the holder of a checked-out connection calls conn.close() on it
ConnCloseCall(t, c) ==
    /\ ready /\ pc[t] = "idle" /\ c \in held[t]
    /\ Apply(ConnClose(St, t, c))

\* the executor finishes the holder's conn.close(); inside execute() or a
\* cursor operation the driver error is then re-raised
ConnCloseDone(t) ==
    /\ pc[t] = "conn_close"
    /\ Apply(IF ~CloseOk(St, loc[t]) THEN Raise(St, t, "ProgrammingError")
             ELSE IF op[t] = "conn_close" THEN Return(CloseResume(St, loc[t]), t)
             ELSE Raise(CloseResume(St, loc[t]), t, "Error"))

\* the holder of a checked-out connection calls conn.execute(sql) and the
\* driver call ends with e
ExecuteCall(t, c) ==
    /\ ready /\ pc[t] = "idle" /\ c \in held[t] /\ ~ConnClosed(St, c)
    /\ \E e \in DriverErrors \cup {NoError} : Apply(Execute(St, t, c, e))

\* the holder runs an operation of a cursor of its connection and the driver
\* call ends with e
CursorOpCall(t, c) ==
    /\ ready /\ pc[t] = "idle" /\ c \in held[t] /\ ~ConnClosed(St, c)
    /\ \E e \in DriverErrors \cup {NoError} : Apply(RunOperation(St, t, c, e))

\* the holder of a checked-out connection opens a cursor: _last_usage is set
CursorCall(t, c) ==
    /\ ready /\ pc[t] = "idle" /\ c \in held[t] /\ ~ConnClosed(St, c)
    /\ lu[c] # now
    /\ Apply([St EXCEPT !.lu[c] = now])

\* loop.time() advances; the clock is read by the recycle test only
Tick ==
    /\ recycle > -1 /\ now < MaxTime
    /\ now' = now + 1
    /\ ev' = "none"
    /\ UNCHANGED <<minsize, maxsize, recycle, ready, free, used, acquiring,
                   closing, closed, lock, lockq, condw, notified, cst, lu, nconn,
                   pc, op, held, loc, rem, born, scope, obj, exit, cur, curc,
                   autoc, work>>

Next ==
    \/ CreatePool
    \/ Tick
    \/ \E t \in Tasks :
          \/ AcquireCall(t)
          \/ LockGranted(t)
          \/ ConnectDone(t)
          \/ SweepCloseDone(t)
          \/ CondWake(t)
          \/ ReleaseCloseDone(t)
          \/ ClearCall(t)
          \/ ClearCloseDone(t)
          \/ CloseCall(t)
          \/ WaitClosedCall(t)
          \/ DrainCloseDone(t)
          \/ ConnCloseDone(t)
          \/ \E c \in Conns :
                \/ ReleaseCall(t, c)
                \/ ConnCloseCall(t, c)
                \/ CursorCall(t, c)

\* NTasks callers that use the pool and their connections as documented
Spec == Init /\ [][Next]_vars

\* The same pool with callers whose driver calls fail and who release
\* connections that are not checked out; Callers of the tasks take part.
NextDriver ==
    \/ CreatePool
    \/ Tick
    \/ \E t \in Callers :
          \/ AcquireCall(t)
          \/ LockGranted(t)
          \/ ConnectDone(t)
          \/ SweepCloseDone(t)
          \/ CondWake(t)
          \/ ReleaseCloseDone(t)
          \/ ClearCall(t)
          \/ ClearCloseDone(t)
          \/ CloseCall(t)
          \/ WaitClosedCall(t)
          \/ DrainCloseDone(t)
          \/ ConnCloseDone(t)
          \/ \E c \in Conns :
                \/ ReleaseCall(t, c)
                \/ ReleaseNotUsedCall(t, c)
                \/ ConnCloseCall(t, c)
                \/ CursorCall(t, c)
                \/ ExecuteCall(t, c)
                \/ CursorOpCall(t, c)

DriverSpec == Init /\ [][NextDriver]_vars

\* The same pool, created with an after_created hook that may suspend, and
\* with callers that cancel their acquire() while it is suspended.

\* the executor finishes pyodbc.connect and the after_created hook suspends
ConnectHookCall(t) ==
    /\ pc[t] \in {"connect_min", "connect_one"} /\ nconn < MaxConns
    /\ Apply(ConnectHook(St, t))

\* the after_created hook returns or raises
HookDone(t) ==
    /\ pc[t] \in {"hook_min", "hook_one"}
    /\ \E ok \in BOOLEAN : Apply(HookResume(St, t, ok))

\* the caller of a suspended acquire() cancels it
CancelCall(t) ==
    /\ op[t] = "acquire" /\ pc[t] \in CancelPcs
    /\ Apply(CancelAcquire(St, t))

\* a cancelled Condition.wait() has the lock again and re-raises
CancelRelocked(t) ==
    /\ pc[t] = "cancel_lock" /\ lock = t
    /\ Apply(Raise(St, t, "CancelledError"))

\* Connection.__del__ of an open Connection nothing refers to: the garbage
\* collector closes the handle, at some moment of its own choosing
Finalize(c) ==
    /\ cst[c] = "open" /\ Unreferenced(St, c)
    /\ Apply([St EXCEPT !.cst[c] = "closed"])

NextCancel ==
    \/ CreatePool
    \/ Tick
    \/ \E c \in Conns : Finalize(c)
    \/ \E t \in Callers :
          \/ AcquireCall(t)
          \/ LockGranted(t)
          \/ ConnectDone(t)
          \/ ConnectHookCall(t)
          \/ HookDone(t)
          \/ CancelCall(t)
          \/ CancelRelocked(t)
          \/ SweepCloseDone(t)
          \/ CondWake(t)
          \/ ReleaseCloseDone(t)
          \/ ClearCall(t)
          \/ ClearCloseDone(t)
          \/ CloseCall(t)
          \/ WaitClosedCall(t)
          \/ DrainCloseDone(t)
          \/ ConnCloseDone(t)
          \/ \E c \in Conns :
                \/ ReleaseCall(t, c)
                \/ ConnCloseCall(t, c)
                \/ CursorCall(t, c)

CancelSpec == Init /\ [][NextCancel]_vars

\* ---- callers that use the scoped wrappers, cursors and transactions ------

\* task t works on connection c: it checked it out, or it is the connection
\* of its connect() block
UsesConn(t, c) == c \in held[t] \/ (scope[t] = "connect" /\ obj[t] = c)

\* a task enters "async with pool.acquire() as conn"
ScopedAcquireCall(t) ==
    /\ ready /\ pc[t] = "idle" /\ scope[t] = "none"
    /\ ApplyScoped(AcquireStart([St EXCEPT !.scope[t] = "enter_acquire"], t), t)

\* the executor finishes pyodbc.connect for the acquire() of task t, which
\* returns to the _ContextManager around it
SConnectDone(t) ==
    /\ pc[t] \in {"connect_min", "connect_one"}
    /\ \E ok \in BOOLEAN :
          /\ ok => nconn < MaxConns
          /\ ApplyScoped(ConnectResume(St, t, ok), t)

\* the executor finishes the close() issued by release() on a closing pool
SReleaseCloseDone(t) ==
    /\ pc[t] = "rel_close"
    /\ ApplyScoped(ReleaseResume(St, t), t)

\* the executor finishes a close() that a user of the connection issued
SConnCloseDone(t) ==
    /\ pc[t] = "conn_close"
    /\ ApplyScoped(UserCloseResume(St, t), t)

\* the executor finishes the driver call of a cursor or connection method
DrvDone(t) ==
    /\ pc[t] = "drv_call"
    /\ \E e \in (IF op[t] = "connect" THEN DriverErrors \cup {NoError}
                 ELSE DrvOutcomes(St, loc[t])) :
          /\ (op[t] = "connect" /\ e = NoError) => nconn < MaxConns
          /\ ApplyScoped(DrvResume(St, t, e), t)

\* a task releases a connection it checked out with a plain acquire()
SReleaseCall(t, c) ==
    /\ ready /\ pc[t] = "idle" /\ c \in held[t] /\ obj[t] # c
    /\ ApplyScoped(ReleaseStart(St, t, c), t)

\* the block of a _ContextManager is left, normally or by an exception
BlockExit(t) ==
    /\ pc[t] = "idle" /\ scope[t] \in Blocks
    /\ \E exc \in BOOLEAN : ApplyScoped(AExit(St, t, exc), t)

\* a task enters "async with conn.cursor() as cur" on a connection it checked
\* out; Connection._cursor asserts that the connection has a handle
CursorScopeCall(t, c) ==
    /\ ready /\ pc[t] = "idle" /\ c \in held[t]
    /\ scope[t] = "none" /\ cur[t] = "none"
    /\ ApplyScoped(ConnCursor([St EXCEPT !.scope[t] = "enter_cursor",
                                         !.work[t] = "none"], t, c), t)

\* a task makes a cursor with "cur = await conn.cursor()"
PlainCursorCall(t, c) ==
    /\ ready /\ pc[t] = "idle" /\ UsesConn(t, c) /\ cur[t] = "none"
    /\ ApplyScoped(ConnCursor(St, t, c), t)

\* a task calls execute, commit, rollback or close on its cursor
CursorFnCall(t) ==
    /\ pc[t] = "idle" /\ cur[t] \in {"open", "closed"}
    /\ \E f \in CursorFns :
          ApplyScoped(IF f = "cur_close" THEN CursorClose(St, t)
                      ELSE RunOp(St, t, f), t)

\* a task lets go of its Cursor object
CursorForget(t) ==
    /\ pc[t] = "idle" /\ cur[t] \in {"open", "closed"} /\ scope[t] # "cursor"
    /\ Apply([St EXCEPT !.cur[t] = "none", !.curc[t] = 0])

\* a task enters "async with aioodbc.connect(...) as conn"
ConnectScopeCall(t) ==
    /\ ready /\ pc[t] = "idle" /\ scope[t] = "none"
    /\ Apply(DrvCall([St EXCEPT !.scope[t] = "enter_connect", !.work[t] = "none"],
                     t, "connect", 0))

\* conn.execute(sql) inside a connect() block
ConnExecuteCall(t) ==
    /\ pc[t] = "idle" /\ scope[t] = "connect"
    /\ ApplyScoped(IF ConnClosed(St, obj[t]) THEN Raise(St, t, "AssertionError")
                   ELSE DrvCall(St, t, "conn_execute", obj[t]), t)

\* the user of an open connection sets conn.autocommit
SetAutocommit(t, c) ==
    /\ pc[t] = "idle" /\ UsesConn(t, c) /\ ~ConnClosed(St, c)
    /\ Apply([St EXCEPT !.autoc[c] = ~@])

\* ScopeSpec has one caller, the task that created the pool: the lock of the
\* condition is never contended and nobody else changes the pool
Scoper == 1

NextScope ==
    \/ CreatePool
    \/ \E t \in {Scoper} :
          \/ AcquireCall(t)
          \/ ScopedAcquireCall(t)
          \/ SConnectDone(t)
          \/ SReleaseCloseDone(t)
          \/ SConnCloseDone(t)
          \/ DrvDone(t)
          \/ BlockExit(t)
          \/ CursorFnCall(t)
          \/ CursorForget(t)
          \/ ConnectScopeCall(t)
          \/ ConnExecuteCall(t)
          \/ CloseCall(t)
          \/ \E c \in Conns :
                \/ SReleaseCall(t, c)
                \/ ConnCloseCall(t, c)
                \/ CursorScopeCall(t, c)
                \/ PlainCursorCall(t, c)
                \/ SetAutocommit(t, c)

\* a caller that uses the pool through "async with", and cursors and
\* transactions on the connections it has
ScopeSpec == Init /\ [][NextScope]_vars

\* ---- properties of the pool ----------------------------------------------

PoolClosePcs == {"sweep_close", "clear_close", "drain_close", "rel_close"}

Connecting == {t \in Tasks : pc[t] \in {"connect_min", "connect_one"}}

\* C1: in every reachable state the total pool size (free + checked out +
\* creations in flight) is at most maxsize.
C1_SizeAtMostMaxsize == Size(St) <= maxsize

\* C1 witness: a full pool of more than one connection with a creation in
\* flight while another caller waits for the lock.
C1_Witness ==
    /\ maxsize = MaxSize /\ Size(St) = maxsize /\ acquiring = 1
    /\ \E t \in Tasks : pc[t] = "lock_wait"

\* C2: no connection is both free and used, none is twice in free, and the
\* checked-out connections are exactly those some caller holds, each held by
\* one caller only.
C2_FreeUsedDisjoint ==
    /\ Range(free) \cap used = {}
    /\ Cardinality(Range(free)) = Len(free)
    /\ used = UNION {held[t] : t \in Tasks}
    /\ \A t, u \in Tasks : t # u => held[t] \cap held[u] = {}

\* C2 witness: one connection is free again after a release while another
\* one is checked out.
C2_Witness ==
    /\ free # <<>> /\ used # {}
    /\ \E t, u \in Tasks : t # u /\ held[t] # {} /\ held[u] = {} /\ pc[u] = "idle"

C4_PoolClosesNoUsedConn ==
    \A t \in Tasks : pc[t] \in PoolClosePcs => loc[t] \notin used

\* C4 witness: release() on a closing pool is closing a connection while
\* another connection is still checked out.
C4_Witness ==
    \E t \in Tasks : pc[t] = "rel_close" /\ used # {} /\ cst[loc[t]] = "open"

\* the condition's waiters whose future no notify() has resolved yet
Pending == {w \in Range(condw) : w \notin notified}

\* no operation in progress can take a step: every task is between two calls
\* or waits on the condition with its future unresolved
Quiet == \A u \in Tasks : pc[u] = "idle" \/ (pc[u] = "cond_wait" /\ u \notin notified)

\* the step in which release() called by task t returns
ReleaseDone(t) ==
    \/ op[t] = "release" /\ op'[t] = "none" /\ ev' = "none"
    \/ /\ pc[t] = "idle" /\ pc'[t] = "idle"
       /\ held'[t] # held[t] /\ held'[t] \subseteq held[t]

\* C5, first part: while maxsize connections are checked out and none is
\* free, no acquire() returns (no connection enters used).
C5_FullPoolBlocks ==
    [][(free = <<>> /\ Cardinality(used) = maxsize) => used' \subseteq used]_vars

\* C5, second part: an acquire() starts to wait on the condition only when
\* maxsize connections are checked out and none is free, so up to maxsize
\* concurrent acquires succeed without a release.
C5_BlocksOnlyWhenFull ==
    [][\A t \in Tasks :
          (pc'[t] = "cond_wait" /\ pc[t] # "cond_wait" /\ op'[t] = "acquire")
             => (Cardinality(used') = maxsize /\ free' = <<>>)]_vars

\* the step in which release() of a connection that was still open returns
OpenReleaseDone(t) ==
    /\ ReleaseDone(t)
    /\ \A c \in held[t] \ held'[t] : cst[c] = "open"

\* C5, third part, for a connection released open: the release resolves the
\* future of exactly one waiter when there is one, and of none otherwise.
C5_OpenReleaseWakesOne ==
    [][\A t \in Tasks :
          OpenReleaseDone(t)
             => IF Pending # {} THEN Cardinality(notified' \ notified) = 1
                ELSE notified' = notified]_vars

\* C5: a full pool with no free connection blocks acquire() until a release,
\* acquire() blocks only then, and every release() of a connection wakes
\* exactly one waiter when there is one.
C5_ReleaseWakesOneWaiter ==
    [][/\ (free = <<>> /\ Cardinality(used) = maxsize) => used' \subseteq used
       /\ \A t \in Tasks :
             (pc'[t] = "cond_wait" /\ pc[t] # "cond_wait" /\ op'[t] = "acquire")
                => (Cardinality(used') = maxsize /\ free' = <<>>)
       /\ \A t \in Tasks :
             ReleaseDone(t)
                => IF Pending # {} THEN Cardinality(notified' \ notified) = 1
                   ELSE notified' = notified]_vars

\* C6: on a pool that is not closing (and can hold a connection), once every
\* checked-out connection has been released and no other operation is in
\* progress, no acquire() is left waiting on the condition: from such a state
\* nothing but a new call could ever wake it.
C6_NoAcquireLeftBlocked ==
    (ready /\ ~closing /\ maxsize > 0 /\ used = {} /\ Quiet)
       => \A t \in Tasks : ~(pc[t] = "cond_wait" /\ op[t] = "acquire")

\* C7: after close(), once every checked-out connection has been released and
\* no other operation is in progress, no wait_closed() is left waiting on the
\* condition.
C7_NoWaitClosedLeftBlocked ==
    (closing /\ used = {} /\ acquiring = 0 /\ Quiet)
       => \A t \in Tasks : ~(pc[t] = "cond_wait" /\ op[t] = "wait_closed")

\* C8: once closing is set no connection enters the used set and the pool
\* creates no connection.
C8_NoAcquisitionOnceClosing ==
    [][closing => (used' \subseteq used /\ nconn' = nconn)]_vars

\* C9: once closing is set no acquire() gets past its first test, and the step
\* that raises the pool-closing error changes nothing of the pool: free, used,
\* acquiring, the connections and the flags.
C9_AcquireAfterCloseFails ==
    [][/\ closing => \A t \in Tasks : op'[t] = "acquire" => op[t] = "acquire"
       /\ ev' = "PoolClosing" =>
             /\ closing
             /\ UNCHANGED <<free, used, acquiring, nconn, cst, closing, closed,
                            lock, lockq, condw, notified>>]_vars

\* C9 witness: acquire() has just failed on a closing pool that has a free
\* connection to give and a connection checked out.
C9_Witness == ev = "PoolClosing" /\ closing /\ free # <<>> /\ used # {}

\* C10: wait_closed() returns, and closed is set, only in a state where no
\* connection is checked out and no creation is in flight.
C10_WaitClosedOnlyWhenDrained ==
    ev = "wait_closed" => (closed /\ used = {} /\ acquiring = 0)

\* C10, the step that sets closed: it happens with nothing checked out and no
\* creation in flight.
C10_ClosedSetWhenDrained ==
    [][(closed' /\ ~closed) => (used' = {} /\ acquiring' = 0)]_vars

\* the parts of a state that make up the pool and its connections
PoolPart(s) ==
    <<s.free, s.used, s.acquiring, s.closing, s.closed, s.cst, s.nconn,
      s.lock, s.lockq, s.condw, s.notified>>

\* pool.size after the step
SizeNext == Len(free') + Cardinality(used') + acquiring'

\* C11: closed, once True, stays True; closed implies closing; closing is
\* never reset; and on a closed pool no acquire() gets past its first test:
\* each one raises the pool-closing error and leaves the pool as it was.
C11_ClosedIsPermanent ==
    [][/\ closed => closed'
       /\ closing => closing'
       /\ closed' => closing'
       /\ closed => \A t \in Tasks :
             /\ op'[t] = "acquire" => op[t] = "acquire"
             /\ pc[t] = "idle" =>
                   /\ AcquireStart(St, t).ev = "PoolClosing"
                   /\ PoolPart(AcquireStart(St, t)) = PoolPart(St)]_vars

\* C11 witness: an acquire() has just failed on a closed pool.
C11_Witness == closed /\ closing /\ ev = "PoolClosing"

\* C12: while close() has not been called, wait_closed() raises the
\* illegal-state error (RuntimeError) at once and changes nothing of the pool:
\* the flags, free, used and every connection's state stay as they were.
C12_WaitClosedBeforeCloseFails ==
    [][/\ ~closing => \A t \in Tasks :
             /\ op'[t] = "wait_closed" => op[t] = "wait_closed"
             /\ (ready /\ pc[t] = "idle") =>
                   /\ WaitClosedStart(St, t).ev = "RuntimeError"
                   /\ WaitClosedStart(St, t).pc[t] = "idle"
                   /\ PoolPart(WaitClosedStart(St, t)) = PoolPart(St)
       /\ ev' = "RuntimeError" =>
             /\ ~closing /\ ~closing' /\ ~closed'
             /\ UNCHANGED <<free, used, acquiring, cst, nconn, lock, lockq,
                            condw, notified>>]_vars

\* C12 witness: wait_closed() has just failed on a pool that was never closed
\* and has a free connection and a checked-out one.
C12_Witness ==
    /\ ev = "RuntimeError" /\ ~closing /\ ~closed /\ free # <<>> /\ used # {}
    /\ \A c \in Range(free) \cup used : cst[c] = "open"

\* C13: in every reachable state close() returns without suspending and
\* without raising, changes nothing but the closing flag, and a second close()
\* right after it changes nothing at all; this also holds on a closed pool.
C13_CloseOnlySetsClosing ==
    \A t \in Tasks :
       (ready /\ pc[t] = "idle") =>
          LET s1 == PoolClose(St, t)
              s2 == PoolClose(s1, t)
          IN  /\ s1 = [St EXCEPT !.closing = TRUE]
              /\ s1.ev = "none" /\ s1.pc[t] = "idle"
              /\ s2 = s1

\* C13 witness: close() was called on a pool with a free and a checked-out
\* connection, both still where they were and open.
C13_Witness ==
    /\ closing /\ ~closed /\ free # <<>> /\ used # {}
    /\ \A c \in Range(free) \cup used : cst[c] = "open"

\* C14: release() of an open connection that is checked out removes it from
\* used in its first step and then, on a closing pool, closes it without
\* pooling it (free unchanged, size one less; closed when the close returns);
\* on any other pool it appends it, still open, to the right end of free
\* (freesize one more, size unchanged).
C14_ReleaseOpenConn ==
    [][/\ \A t \in Tasks, c \in Conns :
             (c \in held[t] /\ c \notin held'[t] /\ c \in used /\ cst[c] = "open") =>
                /\ used' = used \ {c}
                /\ IF closing
                   THEN /\ pc'[t] = "rel_close" /\ loc'[t] = c
                        /\ free' = free
                        /\ SizeNext = Size(St) - 1
                   ELSE /\ free' = Append(free, c)
                        /\ cst'[c] = "open"
                        /\ Len(free') = Len(free) + 1
                        /\ SizeNext = Size(St)
       /\ \A t \in Tasks :
             (pc[t] = "rel_close" /\ pc'[t] # "rel_close") =>
                /\ cst'[loc[t]] = "closed"
                /\ loc[t] \notin Range(free') \cup used'
                /\ ev' = "none"]_vars

\* C14 witness: release() on a closing pool is closing its connection while a
\* connection released before close() sits in free.
C14_Witness ==
    \E t \in Tasks : pc[t] = "rel_close" /\ closing /\ free # <<>> /\ loc[t] \notin used

\* a caller that holds a connection closed in its hands and is about to
\* release it
HoldsClosed(t, c) ==
    ready /\ pc[t] = "idle" /\ c \in held[t] /\ cst[c] = "closed"

\* release() of an already closed connection: out of used, not into free,
\* freesize unchanged, size one less, and release() returns at once
DropsClosed(t, c) ==
    LET s1 == ReleaseStart(St, t, c)
    IN  /\ s1.used = used \ {c}
        /\ s1.free = free
        /\ Size(s1) = Size(St) - 1
        /\ s1.cst = cst
        /\ s1.pc[t] = "idle" /\ s1.ev = "none"

C17_CreatePoolFillsMinsize ==
    [][(ready' /\ ~ready) =>
          /\ ValidSizes
          /\ Len(free') = minsize /\ SizeNext = minsize
          /\ used' = {} /\ acquiring' = 0
          /\ nconn' = minsize
          /\ \A c \in Range(free') : cst'[c] = "open"
          /\ ~closing' /\ ~closed']_vars

\* C17 witness: a pool just returned with MaxSize connections, all free.
C17_Witness ==
    /\ ready /\ minsize = MaxSize /\ Len(free) = minsize /\ used = {}
    /\ acquiring = 0 /\ nconn = minsize /\ \A t \in Tasks : pc[t] = "idle"

\* C18: with minsize < 0 or maxsize < minsize, _create_pool raises ValueError
\* in its first step, no pool is returned, no connect call is issued and no
\* connection is ever created.
C18_BadSizesRaiseValueError ==
    [][~ValidSizes =>
          /\ (pc[1] = "start" /\ pc'[1] # "start") =>
                (ev' = "ValueError" /\ pc'[1] = "idle")
          /\ ~ready' /\ nconn' = 0 /\ acquiring' = 0 /\ free' = <<>>
          /\ \A t \in Tasks : pc'[t] \notin {"connect_min", "connect_one"}]_vars

\* C18 witness: create_pool(minsize = 2, maxsize = 1) has just raised.
C18_Witness ==
    ev = "ValueError" /\ minsize > maxsize /\ minsize > 0 /\ nconn = 0 /\ ~ready

\* C16: release() of a connection that is not in used (released before, or
\* never checked out) raises at once and leaves free, used, every connection's
\* state and the rest of the pool as they were.
C16_ReleaseNotUsedFails ==
    \A t \in Callers, c \in Conns :
       (ready /\ pc[t] = "idle" /\ c \notin used /\ cst[c] # "none") =>
          LET s1 == ReleaseStart(St, t, c)
          IN  /\ s1.ev = "AssertionError"
              /\ s1.pc[t] = "idle"
              /\ PoolPart(s1) = PoolPart(St)
              /\ s1.held = held

\* C16 witness: a release has just failed while the connection released twice
\* sits in free (no connection is closed, so no assertion of acquire failed).
C16_Witness ==
    /\ ev = "AssertionError" /\ free # <<>> /\ used = {}
    /\ \A c \in Conns : cst[c] # "closed"
    /\ \A t \in Tasks : pc[t] = "idle"

\* a holder about to make a driver call on its open connection
HoldsOpen(t, c) ==
    ready /\ pc[t] = "idle" /\ c \in held[t] /\ cst[c] = "open"

\* C20: a driver error in Connection.execute or in a cursor operation starts
\* the close of the owning connection if and only if the error is classified
\* connection-terminating, and the error is re-raised only when that close has
\* returned; after any other error the connection is open and the pool is as it
\* was; a connection closed this way is dropped by release(), and nothing
\* closed ever enters free.
C20_TerminatingErrorClosesConn ==
    [][/\ \A t \in Callers, c \in Conns :
             HoldsOpen(t, c) =>
                \A e \in DriverErrors :
                   \A s1 \in {Execute(St, t, c, e), RunOperation(St, t, c, e)} :
                      IF IsConnCloseError(e)
                      THEN /\ s1.pc[t] = "conn_close" /\ s1.loc[t] = c
                           /\ s1.ev = "none"
                      ELSE /\ s1.pc[t] = "idle" /\ s1.ev = "Error"
                           /\ s1.cst[c] = "open"
                           /\ PoolPart(s1) = PoolPart(St)
       /\ \A t \in Callers :
             (pc[t] = "conn_close" /\ op[t] \in {"execute", "run_operation"}
                 /\ pc'[t] # "conn_close") =>
                /\ cst'[loc[t]] = "closed"
                /\ ev' = "Error"
                /\ loc[t] \in used' /\ loc[t] \notin Range(free')
       /\ \A t \in Callers, c \in Conns :
             (c \in held[t] /\ c \notin held'[t] /\ cst[c] = "closed") =>
                (c \notin Range(free') /\ c \notin used')
       /\ \A c \in Conns :
             (c \in Range(free') /\ c \notin Range(free)) => cst'[c] = "open"]_vars

\* C20 witness: the only connection of the pool is checked out and closed, and
\* the driver error that closed it has just been re-raised.
C20_Witness ==
    /\ ev = "Error" /\ nconn = 1 /\ used = {1} /\ cst[1] = "closed"
    /\ \A t \in Tasks : pc[t] = "idle"

\* C19: with recycling enabled, on a pool that is not being closed, a free
\* connection found expired by the sweep of an acquire() is closed and evicted
\* from free, the acquire() is served (it does not fail on the evicted
\* connection, it hands out an open connection) and the pool is topped up
\* again: size is not below minsize when the acquire() returns.
C19_ExpiredConnReplaced ==
    [][~closing' =>
          /\ \A t \in Tasks :
                (pc[t] = "sweep_close" /\ pc'[t] # "sweep_close") =>
                   /\ cst'[loc[t]] = "closed"
                   /\ loc[t] \notin Range(free')
                   /\ loc[t] \notin used'
          /\ \A t \in Tasks :
                op[t] = "acquire" => ev' \notin {"AssertionError", "IndexError"}
          /\ \A c \in Conns :
                (c \in used' /\ c \notin used) =>
                   (cst'[c] = "open" /\ SizeNext >= minsize)]_vars

\* C19, the sequential case: when nothing touches free while the sweep's
\* close is awaited, the expired connection is the one evicted.
C19_EvictedWhenFreeUntouched ==
    [][\A t \in Tasks :
          (pc[t] = "sweep_close" /\ pc'[t] # "sweep_close"
              /\ free # <<>> /\ free[Len(free)] = loc[t]) =>
             /\ cst'[loc[t]] = "closed"
             /\ loc[t] \notin Range(free')]_vars

\* ---- properties of acquire / release / clear ------------------------------

\* an acquire() of task t is suspended in a connect call of _fill_free_pool
InConnect(t) == op[t] = "acquire" /\ pc[t] \in {"connect_min", "connect_one"}

ClearStep(t) ==
    /\ op[t] = "clear" \/ op'[t] = "clear"
    /\ <<pc[t], op[t], loc[t]>> # <<pc'[t], op'[t], loc'[t]>>

\* C23: every step of clear() leaves the used set, the checked-out
\* connections and the closing/closed flags as they are; a connection it
\* takes out of free is closed already or is the one whose close it awaits,
\* and that one is closed when the close returns; clear() does not raise and
\* when it returns free is empty.
C23_ClearClosesFreeOnly ==
    [][\A t \in Tasks :
          ClearStep(t) =>
             /\ used' = used /\ held' = held
             /\ closing' = closing /\ closed' = closed
             /\ acquiring' = acquiring /\ nconn' = nconn
             /\ \A c \in used : cst'[c] = cst[c]
             /\ \A c \in Conns :
                   cst'[c] # cst[c] =>
                      (c = loc[t] /\ pc[t] = "clear_close" /\ cst'[c] = "closed")
             /\ pc[t] = "clear_close" => cst'[loc[t]] = "closed"
             /\ \A c \in Range(free) \ Range(free') :
                   cst'[c] = "closed" \/ (pc'[t] = "clear_close" /\ loc'[t] = c)
             /\ Range(free') \subseteq Range(free)
             /\ (op[t] = "clear" /\ op'[t] = "none") =>
                   (ev' = "none" /\ free' = <<>> /\ Len(free') = 0)]_vars

\* C23 witness: clear() awaits the close of a free connection while another
\* connection is checked out and open.
C23_Witness ==
    \E t \in Tasks :
       /\ op[t] = "clear" /\ pc[t] = "clear_close" /\ cst[loc[t]] = "open"
       /\ used # {} /\ \A c \in used : cst[c] = "open"

\* the connect calls of the acquire() of task t all succeed, as far as
\* Connection objects are left: the state in which the acquire() has returned
RECURSIVE ConnectsDone(_, _)
ConnectsDone(s, t) ==
    IF s.pc[t] \in {"connect_min", "connect_one"} /\ s.nconn < MaxConns
    THEN ConnectsDone(ConnectResume(s, t, TRUE), t)
    ELSE s

\* an idle caller of a pool that is unlocked, not closing, and whose free
\* connections are open and not due for recycling
CanRoundTrip(t) ==
    /\ ready /\ pc[t] = "idle" /\ ~closing /\ lock = 0
    /\ \A c \in Range(free) : cst[c] = "open" /\ ~Expired(St, c)

\* acquire() by task t run to its return
Acquired(t) == ConnectsDone(AcquireStart(St, t), t)

\* the connection that acquire() returned
AcquiredConn(t) == CHOOSE c \in Acquired(t).held[t] : c \notin held[t]

\* release() of that connection, run to its return
RoundTrip(t) == ReleaseStart(Acquired(t), t, AcquiredConn(t))

\* the acquire() of task t returns a connection
AcquireReturns(t) ==
    /\ Acquired(t).pc[t] = "idle" /\ Acquired(t).ev = "none"
    /\ Acquired(t).held[t] # held[t]

\* C24 as stated: acquire() followed by release() of the same, still open,
\* connection restores freesize, size and the used set, and the connection
\* is still open.
C24_RoundTripRestores ==
    \A t \in Tasks :
       (CanRoundTrip(t) /\ AcquireReturns(t)) =>
          /\ RoundTrip(t).pc[t] = "idle" /\ RoundTrip(t).ev = "none"
          /\ FreeSize(RoundTrip(t)) = FreeSize(St)
          /\ Size(RoundTrip(t)) = Size(St)
          /\ RoundTrip(t).used = used
          /\ RoundTrip(t).cst[AcquiredConn(t)] = "open"

\* C24 amended: the round trip restores the used set and leaves the
\* connection open; it restores freesize and size when the acquire() was
\* served from free, and leaves both larger by the number of connections the
\* acquire() created otherwise.
C24_RoundTripRestoresUsed ==
    \A t \in Tasks :
       (CanRoundTrip(t) /\ AcquireReturns(t)) =>
          LET made == Acquired(t).nconn - nconn
          IN  /\ RoundTrip(t).pc[t] = "idle" /\ RoundTrip(t).ev = "none"
              /\ RoundTrip(t).used = used /\ RoundTrip(t).held = held
              /\ RoundTrip(t).cst[AcquiredConn(t)] = "open"
              /\ RoundTrip(t).acquiring = acquiring
              /\ FreeSize(RoundTrip(t)) = FreeSize(St) + made
              /\ Size(RoundTrip(t)) = Size(St) + made
              /\ made = 0 <=> (free # <<>> /\ Size(St) >= minsize)
              /\ made = 0 =>
                    /\ AcquiredConn(t) = Head(free)
                    /\ RoundTrip(t).free = Append(Tail(free), Head(free))

\* C24 witness: a pool with two open free connections, one more checked out
\* by nobody, and an idle caller: the round trip is served from free.
C24_Witness ==
    \E t \in Tasks :
       /\ CanRoundTrip(t) /\ AcquireReturns(t)
       /\ Len(free) = 2 /\ Acquired(t).nconn = nconn
       /\ RoundTrip(t).free = <<free[2], free[1]>>

\* no recycle sweep is suspended in a close before or after the step
NoSweepClose == \A u \in Tasks : pc[u] # "sweep_close" /\ pc'[u] # "sweep_close"

\* the connections of free that are still in free after the step, in order
Kept == SelectSeq(free, LAMBDA x : x \in Range(free'))

\* C25: free is a FIFO queue.  In every step outside a recycling sweep the
\* connections that stay in free keep their order and the ones that arrive
\* (released or created) are put behind them; a connection that acquire()
\* hands out, when the step recycles nothing, is the left end of free, i.e.
\* the one that arrived earliest, or the connection just created when free
\* was empty.
C25_FreeIsFifo ==
    [][NoSweepClose =>
          /\ Len(free') >= Len(Kept)
          /\ SubSeq(free', 1, Len(Kept)) = Kept
          /\ \A c \in used' \ used :
                (Range(free) \ Range(free') \subseteq {c}) =>
                   IF free # <<>>
                   THEN c = Head(free) /\ Kept = Tail(free)
                   ELSE c = nconn' /\ nconn' = nconn + 1]_vars

\* C25 witness: two connections were created as 1, 2 and released as 2, 1;
\* the acquire() of an idle caller returns 2, the one released first.
C25_Witness ==
    \E t \in Tasks :
       /\ CanRoundTrip(t) /\ AcquireReturns(t)
       /\ free = <<2, 1>> /\ AcquiredConn(t) = 2
       /\ Acquired(t).free = <<1>>

\* ---- properties of Connection and Cursor ---------------------------------

\* C26: a Connection is closed exactly when it has no handle; close() on a
\* closed Connection returns at once, raises nothing and changes nothing;
\* when the close() of an open Connection returns the handle is cleared; and
\* a Connection that was closed is never open again (nor is an open one ever
\* without having been closed).
C26_ClosedIsNullHandle ==
    [][/\ \A c \in Conns : ConnClosed(St, c) <=> cst[c] \in {"none", "closed"}
       /\ \A t \in Tasks, c \in Conns :
             (ready /\ pc[t] = "idle" /\ c \in held[t] /\ cst[c] = "closed") =>
                LET s1 == ConnClose(St, t, c)
                IN  /\ s1.pc[t] = "idle" /\ s1.ev = "none"
                    /\ s1.cst = cst /\ PoolPart(s1) = PoolPart(St)
                    /\ s1.held = held
       /\ \A t \in Tasks :
             (pc[t] = "conn_close" /\ pc'[t] # "conn_close"
                 /\ ev' # "ProgrammingError") => cst'[loc[t]] = "closed"
       /\ \A c \in Conns :
             /\ cst[c] = "closed" => cst'[c] = "closed"
             /\ cst[c] = "open" => cst'[c] \in {"open", "closed"}]_vars

\* C26 witness: a caller holds a connection it has closed and is about to
\* close it again.
C26_Witness ==
    \E t \in Tasks, c \in Conns :
       /\ ready /\ pc[t] = "idle" /\ c \in held[t] /\ cst[c] = "closed"
       /\ ev = "none" /\ ConnClose(St, t, c).pc[t] = "idle"

\* ---- properties of shutdown ----------------------------------------------

\* C30: once wait_closed() has returned (closed is set), free is empty and
\* every connection the pool created is closed.
C30_ClosedPoolHasNoOpenConn ==
    closed => (free = <<>> /\ \A c \in Conns : cst[c] # "open")

\* ---- properties of a cancelled acquire() ----------------------------------

\* the step in which the acquire() of task t ends with CancelledError
Cancelled(t) == op[t] = "acquire" /\ op'[t] = "none" /\ ev' = "CancelledError"

\* C21: when a cancelled acquire() ends, the lock is not left with the
\* cancelled task, acquiring counts the connects still in flight, and the
\* connection whose handle was established for that acquire (the one its
\* connect had in hand) is in free, in used, or closed.
C21_CancelledAcquireLeaksNothing ==
    [][\A t \in Tasks :
          Cancelled(t) =>
             /\ lock' # t /\ t \notin Range(lockq')
             /\ t \notin Range(condw')
             /\ acquiring' =
                   Cardinality({u \in Tasks : pc'[u] \in {"connect_min", "connect_one",
                                                          "hook_min", "hook_one"}})
             /\ \A c \in Conns :
                   (c = loc[t] /\ pc[t] \in {"hook_min", "hook_one"}) =>
                      (c \in Range(free') \/ c \in used' \/ cst'[c] = "closed")]_vars

\* C21, the part that holds: the lock, the condition's queue and acquiring
\* are left in order by a cancellation at any of the suspension points.
C21_CancelRestoresLockAndCount ==
    [][\A t \in Tasks :
          Cancelled(t) =>
             /\ lock' # t /\ t \notin Range(lockq')
             /\ t \notin Range(condw')
             /\ used' = used /\ free' = free
             /\ acquiring' =
                   Cardinality({u \in Tasks : pc'[u] \in {"connect_min", "connect_one",
                                                          "hook_min", "hook_one"}})]_vars

\* ---- properties of cursors and of the scoped wrappers -------------------

\* the part of the state a cursor operation must leave alone when it is
\* refused
ConnPart(s) == <<PoolPart(s), s.held, s.cur, s.curc, s.autoc, s.work, s.scope,
                 s.obj, s.lu>>

\* C27: a closed Cursor has no Connection reference and is never open again;
\* execute, commit and rollback on it raise OperationalError at once, with
\* no driver call and nothing changed, and close() on it returns at once and
\* raises nothing.
C27_ClosedCursorRefusesOps ==
    [][\A t \in Tasks :
          cur[t] = "closed" =>
             /\ curc[t] = 0
             /\ cur'[t] # "open"
             /\ pc[t] = "idle" =>
                   /\ \A f \in CursorFns \ {"cur_close"} :
                         LET s1 == RunOp(St, t, f)
                         IN  /\ s1.ev = "OperationalError"
                             /\ s1.pc[t] = "idle" /\ s1.op[t] = "none"
                             /\ ConnPart(s1) = ConnPart(St)
                   /\ LET s2 == CursorClose(St, t)
                      IN  /\ s2.ev = "none" /\ s2.pc[t] = "idle"
                          /\ ConnPart(s2) = ConnPart(St)]_vars

\* C27 witness: an operation on a closed cursor has just been refused; the
\* cursor's connection is still open and checked out.
C27_Witness ==
    \E t \in Tasks :
       /\ cur[t] = "closed" /\ ev = "OperationalError" /\ pc[t] = "idle"
       /\ \E c \in held[t] : cst[c] = "open"

\* task t is inside the block of "async with pool.acquire() as conn"
InAcquireBlock(t) == scope[t] = "acquire" /\ exit[t] = "none" /\ pc[t] = "idle"

\* C28: inside the block the connection of the wrapper is checked out.
\* Leaving the block, normally or by an exception, calls release() on it,
\* which takes it out of used in its first step; when __aexit__ has ended
\* the wrapper has no connection any more, so that a second __aexit__
\* releases nothing.  When the acquire() of __aenter__ raised, the wrapper has
\* no connection, and nothing is released.
C28_ScopedAcquireReleasesOnce ==
    [][\A t \in Tasks :
          /\ InAcquireBlock(t) =>
                /\ obj[t] \in used /\ obj[t] \in held[t]
                /\ \A exc \in BOOLEAN :
                      LET s1 == Scoped(AExit(St, t, exc), t)
                      IN  /\ s1.used = used \ {obj[t]}
                          /\ s1.held[t] = held[t] \ {obj[t]}
                          /\ s1.ev = "none"
                          /\ s1.pc[t] = "idle" =>
                                /\ s1.obj[t] = 0 /\ s1.scope[t] = "none"
                                /\ AExit(s1, t, exc) = Return(s1, t)
          /\ (scope[t] = "acquire" /\ exit[t] # "none") =>
                /\ obj[t] \notin used /\ obj[t] \notin Range(free)
                /\ used' = used
                /\ pc'[t] = "idle" =>
                      (obj'[t] = 0 /\ scope'[t] = "none" /\ exit'[t] = "none"
                          /\ ev' = "none")
          /\ (scope[t] = "enter_acquire" /\ scope'[t] = "none") =>
                /\ ev' # "none" /\ obj'[t] = 0
                /\ used' = used /\ held' = held
                /\ Range(free') \cap used' = {}
          /\ (scope[t] = "enter_acquire" /\ scope'[t] = "acquire") =>
                /\ obj'[t] \in used' /\ obj'[t] \notin used
                /\ ev' = "none"
          /\ (scope[t] = "none" /\ pc[t] = "idle") =>
                (obj[t] = 0 /\ AExit(St, t, TRUE) = Return(St, t))]_vars

\* C28 witness: the block was left by an exception on a pool that is closing;
\* the release has taken the connection out of used and awaits its close.
C28_Witness ==
    \E t \in Tasks :
       /\ scope[t] = "acquire" /\ exit[t] = "error" /\ pc[t] = "rel_close"
       /\ loc[t] = obj[t] /\ obj[t] \notin used /\ closing

\* the __aexit__ of the cursor() or connect() block of task t ends in this step
ExitEnds(t) == scope[t] \in {"cursor", "connect"} /\ scope'[t] = "none"

\* C29: when the exit of a cursor() or connect() block has ended, the cursor,
\* or the connection, of the block is closed; the exit closes it after a commit
\* (normal exit, autocommit off) or a rollback (exit by exception) and never
\* before; and work that was uncommitted when the block failed is never
\* committed by the exit.
C29_ScopedExitCommitsOrRollsBackThenCloses ==
    [][\A t \in Tasks :
          /\ (ExitEnds(t) /\ scope[t] = "cursor") => cur'[t] # "open"
          /\ (ExitEnds(t) /\ scope[t] = "connect") => cst'[obj[t]] = "closed"
          /\ (scope[t] \in {"cursor", "connect"} /\ exit[t] = "error"
                 /\ work[t] = "pending") => work'[t] # "committed"
          /\ (scope[t] \in {"cursor", "connect"} /\ exit[t] = "none"
                 /\ pc[t] = "idle" /\ work[t] = "pending") =>
                LET s1 == AExit(St, t, TRUE)
                    s0 == AExit(St, t, FALSE)
                    c  == IF scope[t] = "cursor" THEN curc[t] ELSE obj[t]
                IN  /\ s1.pc[t] = "drv_call" =>
                          s1.op[t] \in {"cur_rollback", "conn_rollback"}
                    /\ (s0.pc[t] = "drv_call" /\ ~autoc[c]) =>
                          s0.op[t] \in {"cur_commit", "conn_commit"}
                    /\ (s0.pc[t] # "idle" /\ autoc[c]) =>
                          s0.op[t] \in {"cur_close", "conn_close"}]_vars

\* one step of the coroutine of task t: a call it makes, or a resumption of it
TaskStep(t) ==
    \/ AcquireCall(t)
    \/ LockGranted(t)
    \/ ConnectDone(t)
    \/ SweepCloseDone(t)
    \/ CondWake(t)
    \/ ReleaseCloseDone(t)
    \/ ClearCall(t)
    \/ ClearCloseDone(t)
    \/ CloseCall(t)
    \/ WaitClosedCall(t)
    \/ DrainCloseDone(t)
    \/ ConnCloseDone(t)
    \/ \E c \in Conns :
          \/ ReleaseCall(t, c)
          \/ ConnCloseCall(t, c)
          \/ CursorCall(t, c)

\* C31: the free collection, the used set and the acquiring counter are
\* mutated only by the coroutine that holds the lock of the condition: a step
\* of a task made while another task holds the lock (which it cannot take
\* within that step) leaves all three unchanged.
C31_AccountingMutatedUnderLock ==
    [][\A t \in Tasks :
          (lock \notin {0, t} /\ TaskStep(t)) =>
             UNCHANGED <<free, used, acquiring>>]_vars

\* C32: every release() that returns has notified the condition after it took
\* the connection out of used, whether the connection was open (pool closing
\* or not) or already closed: in the step in which it returns, the futures
\* resolved are those before it plus the one notify() resolves.
C32_EveryReleaseNotifies ==
    [][\A t \in Tasks :
          ReleaseDone(t) =>
             /\ notified' = Notify(St).notified
             /\ \A c \in held[t] \ held'[t] : c \notin used']_vars

\* C33: no step puts or leaves a closed connection in the free collection,
\* every connection an acquire() hands out is open, and no acquire() fails on
\* its assertion "not conn.closed".
C33_FreeAndAcquiredAreOpen ==
    [][/\ \A c \in Range(free') : cst'[c] = "open"
       /\ \A c \in used' \ used : cst'[c] = "open"
       /\ \A t \in Tasks : op[t] = "acquire" => ev' # "AssertionError"]_vars

\* C34: acquire() creates connections lazily.  On a pool that is unlocked and
\* has nothing to recycle, an acquire() that finds size >= minsize returns the
\* left end of free when there is one, creating nothing and leaving size as
\* it was; with free empty it starts exactly one creation when size < maxsize
\* (and returns that connection, size one more) and waits when size = maxsize;
\* below minsize it tops up first and then creates nothing more.  Whatever the
\* interleaving, the extra creation starts only with free empty and
\* minsize <= size < maxsize, and the acquire() returns when it ends.
C34_AcquireCreatesLazily ==
    [][\A t \in Tasks :
          /\ CanRoundTrip(t) =>
                LET s1 == AcquireStart(St, t)
                    s2 == ConnectResume(s1, t, TRUE)
                    s3 == ConnectResume(s1, t, FALSE)
                IN  /\ (Size(St) >= minsize /\ free # <<>>) =>
                          /\ s1.pc[t] = "idle" /\ s1.ev = "none"
                          /\ s1.held[t] = held[t] \cup {Head(free)}
                          /\ s1.free = Tail(free)
                          /\ Size(s1) = Size(St)
                          /\ s1.nconn = nconn /\ s1.acquiring = acquiring
                    /\ (Size(St) >= minsize /\ free = <<>> /\ Size(St) < maxsize) =>
                          /\ s1.pc[t] = "connect_one" /\ s1.acquiring = acquiring + 1
                          /\ s1.nconn = nconn /\ s1.used = used
                          /\ nconn < MaxConns =>
                                /\ s2.pc[t] = "idle" /\ s2.ev = "none"
                                /\ s2.nconn = nconn + 1
                                /\ s2.held[t] = held[t] \cup {nconn + 1}
                                /\ s2.free = <<>> /\ s2.acquiring = acquiring
                                /\ Size(s2) = Size(St) + 1
                          /\ s3.pc[t] = "idle" /\ s3.ev = "ConnectError"
                          /\ s3.nconn = nconn /\ Size(s3) = Size(St)
                    /\ (Size(St) >= minsize /\ free = <<>> /\ Size(St) >= maxsize) =>
                          /\ s1.pc[t] = "cond_wait"
                          /\ s1.nconn = nconn /\ s1.acquiring = acquiring
                          /\ Size(s1) = Size(St)
                    /\ Size(St) < minsize =>
                          /\ s1.pc[t] = "connect_min"
                          /\ nconn + (minsize - Size(St)) <= MaxConns =>
                                /\ Acquired(t).pc[t] = "idle"
                                /\ Acquired(t).nconn = nconn + (minsize - Size(St))
                                /\ Size(Acquired(t)) = minsize
          /\ (pc'[t] = "connect_one" /\ pc[t] # "connect_one") =>
                /\ op'[t] = "acquire" /\ free' = <<>>
                /\ acquiring' = 1 /\ nconn' = nconn
                /\ SizeNext - 1 >= minsize /\ SizeNext <= maxsize
          /\ pc[t] = "connect_one" =>
                /\ pc'[t] \in {"connect_one", "idle"}
                /\ nconn' \in {nconn, nconn + 1}
                /\ (pc'[t] = "idle" /\ ev' = "none") =>
                      /\ nconn' = nconn + 1
                      /\ Cardinality(held'[t] \ held[t]) = 1
                      /\ SizeNext = Size(St)]_vars

\* C34 witness: an acquire() found free empty while a connection is checked
\* out and size < maxsize, and its one creation is in flight.
C34_Witness ==
    \E t \in Tasks :
       /\ pc[t] = "connect_one" /\ acquiring = 1 /\ free = <<>>
       /\ used # {} /\ Size(St) <= maxsize /\ Size(St) - 1 >= minsize

\* C35: the recycle sweep of _fill_free_pool runs before any creation; the
\* connection it closes is the one it evicts, every connection it takes out
\* of free is one whose idle time exceeds the threshold, and it never runs
\* out of connections to examine; a sweep that finds nothing expired leaves
\* free as it was, in its order; with the threshold -1 no sweep closes or
\* evicts anything.
C35_SweepEvictsExactlyExpired ==
    [][\A t \in Tasks :
          /\ recycle = -1 => pc'[t] # "sweep_close"
          /\ pc'[t] = "sweep_close" =>
                pc[t] \notin {"connect_min", "connect_one"}
          /\ SweepCloseDone(t) =>
                /\ loc[t] \notin Range(free')
                /\ \A c \in Range(free) \ (Range(free') \cup used') :
                      Expired(St, c)
                /\ ev' # "IndexError"
          /\ (CanRoundTrip(t) /\ free # <<>> /\ Size(St) >= minsize) =>
                /\ AcquireStart(St, t).free = Tail(free)
                /\ AcquireStart(St, t).cst = cst]_vars

\* C36: when the close() awaited by the recycle sweep fails (the driver
\* refuses a handle that was closed meanwhile), the failure is swallowed:
\* nothing is raised to the caller of acquire(), the connection the sweep was
\* closing is not in free afterwards, and the sweep goes on (its acquire() is
\* still in progress or has returned a connection).
C36_SweepCloseFailureSwallowed ==
    [][\A t \in Tasks :
          (SweepCloseDone(t) /\ ~CloseOk(St, loc[t])) =>
             /\ ev' = "none"
             /\ loc[t] \notin Range(free')
             /\ pc'[t] # "idle" \/ held'[t] # held[t] \/ op[t] = "create"]_vars

\* C37: cursor() on a connection without a handle raises before anything
\* reaches the driver: no cursor is made and last_usage stays as it is.  On an
\* open connection the call goes to the driver; when the driver returns, the
\* caller has an open cursor bound to that connection and the connection's
\* last_usage is the current time; when the driver raises, there is no cursor
\* and last_usage is unchanged.  A last_usage is never later than the current
\* time, so that cursor() never makes it smaller.
C37_CursorNeedsHandle ==
    /\ \A c \in Conns : lu[c] <= now
    /\ \A t \in Tasks, c \in Conns :
          pc[t] = "idle" =>
             LET s1 == ConnCursor(St, t, c)
             IN  IF cst[c] # "open"
                 THEN /\ s1.ev = "AssertionError" /\ s1.pc[t] = "idle"
                      /\ s1.cur = cur /\ s1.curc = curc /\ s1.lu = lu
                      /\ PoolPart(s1) = PoolPart(St)
                 ELSE /\ s1.pc[t] = "drv_call" /\ s1.loc[t] = c
                      /\ s1.lu = lu /\ s1.cur = cur
                      /\ \A e \in DrvOutcomes(s1, c) :
                            LET s2 == DrvResume(s1, t, e)
                            IN  /\ s2.pc[t] = "idle"
                                /\ IF e = NoError
                                   THEN /\ s2.ev = "none"
                                        /\ s2.cur[t] = "open" /\ s2.curc[t] = c
                                        /\ s2.lu = [lu EXCEPT ![c] = now]
                                        /\ s2.lu[c] >= lu[c]
                                   ELSE /\ s2.ev = "Error"
                                        /\ s2.cur = cur /\ s2.curc = curc
                                        /\ s2.lu = lu
                                /\ s2.cst = cst /\ s2.used = used
                                /\ s2.free = free

\* C37 witness: a caller holds a connection it has closed and an open one
\* that was last used before the current time.
C37_Witness ==
    \E t \in Tasks, c, d \in Conns :
       /\ pc[t] = "idle" /\ c \in held[t] /\ d \in held[t]
       /\ cst[c] = "closed" /\ cst[d] = "open" /\ lu[d] < now
       /\ ConnCursor(St, t, c).ev = "AssertionError"
       /\ DrvResume(ConnCursor(St, t, d), t, NoError).lu[d] = now

\* C38: whenever the __aexit__ of a connect() or cursor() block has ended, also
\* when the commit or rollback it awaited raised or the connection was closed
\* inside the block, the wrapper holds no reference any more and the
\* connection of the connect() block, or the cursor of the cursor() block, is
\* closed.
C38_ExitClosesEvenWhenItRaises ==
    [][\A t \in Tasks :
          ExitEnds(t) =>
             /\ obj'[t] = 0 /\ exit'[t] = "none"
             /\ scope[t] = "connect" => cst'[obj[t]] = "closed"
             /\ scope[t] = "cursor" => cur'[t] = "closed"]_vars

\* C39: _is_conn_close_error(e) is True exactly when e is a pyodbc.Error with
\* at least two args whose first is "08S01", or is "HY000" with a second arg
\* that starts with "[HY000] server closed the connection unexpectedly"; it is
\* False for every other exception; execute() closes its connection for the
\* driver errors so classified and for no others.
C39_ConnCloseErrorClassification ==
    /\ \A x \in Exceptions :
          IsConnCloseException(x) <=>
             /\ x.isError
             /\ Len(x.args) >= 2
             /\ \/ x.args[1] = "08S01"
                \/ x.args[1] = "HY000" /\ StartsWith(x.args[2], ServerClosedMsg)
    /\ \A t \in Tasks, c \in Conns :
          (pc[t] = "idle" /\ c \in held[t] /\ cst[c] = "open") =>
             \A e \in DriverErrors :
                (Execute(St, t, c, e).pc[t] = "conn_close")
                   <=> IsConnCloseException([isError |-> TRUE, args |-> e])

\* C39 witness: one caller's execute() got an error classified as closing and
\* is closing its connection, while the execute() of another caller has just
\* re-raised an error classified as not closing, its connection still open.
C39_Witness ==
    \E t, u \in Tasks :
       /\ pc[t] = "conn_close" /\ op[t] = "execute" /\ cst[loc[t]] = "open"
       /\ pc[u] = "idle" /\ ev = "Error"
       /\ held[u] # {} /\ \A c \in held[u] : cst[c] = "open"

\* C40: at most one connection creation is in flight: acquiring is 0 or 1,
\* and a caller suspended in the connect of _fill_free_pool holds the lock of
\* the condition, so that every other acquire() that wants to create a
\* connection is queued on the lock or waits on the condition meanwhile.
C40_OneCreationInFlight ==
    /\ acquiring \in {0, 1}
    /\ Cardinality(Connecting) = acquiring
    /\ \A t \in Connecting :
          /\ lock = t
          /\ \A u \in Tasks \ {t} :
                op[u] \in {"acquire", "create"} =>
                   pc[u] \in {"lock_wait", "cond_wait"}

\* C40 witness: three callers acquire from an empty pool; the first has its
\* connection, the second is creating one, the third is queued on the lock.
C40_Witness ==
    \E t, u \in Tasks :
       /\ pc[t] = "connect_one" /\ lock = t /\ acquiring = 1
       /\ pc[u] = "lock_wait" /\ op[u] = "acquire"
       /\ nconn = 1 /\ used = {1} /\ free = <<>>

====
